---- MODULE Spec2Model ----
(***************************************************************************)
(* A model of SatpyCFFileHandler (satpy/readers/satpy_cf_nc.py): the file  *)
(* handler that lists and loads the datasets of a CF netCDF file written   *)
(* by Satpy.                                                               *)
(*                                                                         *)
(* Python values are records [t |-> type tag, v |-> payload].  A str is    *)
(* the sequence of its characters, a list or a tuple the sequence of its   *)
(* elements, a float its value in hundredths, an int its value.  A dict is *)
(* a function from its keys.  A call's outcome is [err, val]: err is ""    *)
(* for a return and the exception's name for a raise.                      *)
(***************************************************************************)
EXTENDS Naturals, Sequences, FiniteSets

VARIABLES
    filename,        \* self.filename
    filename_info,   \* self.filename_info
    filetype_info,   \* self.filetype_info
    engine,          \* self.engine
    file,            \* what xr.open_dataset finds at self.filename
    op,              \* the most recent call
    given,           \* its arguments, as the caller passed them
    after,           \* the same objects once the call has returned
    ret,             \* its outcome
    opens,           \* the xr.open_dataset calls it made
    genState,        \* the generator available_datasets returned
    configured,      \* the generator's configured_datasets argument
    out,             \* the records the generator has yielded so far
    passOpened,      \* the passes of the generator that have opened the file
    inUse,           \* handles held by the generator's live frames
    leaked           \* handles whose call has exited without a close

handler == <<filename, filename_info, filetype_info, engine>>
call == <<op, given, after, ret, opens>>
gen == <<genState, configured, out, passOpened>>
vars == <<filename, filename_info, filetype_info, engine, file, op, given,
          after, ret, opens, genState, configured, out, passOpened, inUse,
          leaked>>

---------------------------------------------------------------------------
(* Bounds of the model. *)

MaxVars == 2
MaxCoords == 1
MaxConfigured == 2
MaxHandles == 2

---------------------------------------------------------------------------
(* Python values. *)

None == [t |-> "none", v |-> <<>>]
Str(s) == [t |-> "str", v |-> s]
List(xs) == [t |-> "list", v |-> xs]
Tuple(xs) == [t |-> "tuple", v |-> xs]
PySet(xs) == [t |-> "set", v |-> xs]
Float(n) == [t |-> "float", v |-> n]
Int(n) == [t |-> "int", v |-> n]
Datetime(n) == [t |-> "datetime", v |-> n]

Ok(x) == [err |-> "", val |-> x]
Raise(e) == [err |-> e, val |-> None]

EmptyDict == [k \in {} |-> None]
Put(d, key, x) == [k \in DOMAIN d \cup {key} |-> IF k = key THEN x ELSE d[k]]
\* Update as a merge that keeps what d holds.
UpdateKeepsOwn(d, e) ==
    [k \in DOMAIN d \cup DOMAIN e |-> IF k \in DOMAIN d THEN d[k] ELSE e[k]]

\* dict.update: the keys of e are written into d, over what d holds.
Update(d, e) == [k \in DOMAIN d \cup DOMAIN e |-> IF k \in DOMAIN e THEN e[k] ELSE d[k]]

---------------------------------------------------------------------------
(* str.replace('/', '-'), str.lower, str.split(' ') and float.              *)

Upper == {"A", "B", "V"}
Digits == {"0", "1", "2", "3", "4", "5", "6", "7", "8", "9"}

LowerChar(c) ==
    CASE c = "A" -> "a"
      [] c = "B" -> "b"
      [] c = "V" -> "v"
      [] OTHER -> c

Lower(s) == [i \in 1..Len(s) |-> LowerChar(s[i])]

\* Replace that stops after the first occurrence.
ReplaceFirst(s, old, new) ==
    [i \in 1..Len(s) |->
        IF s[i] = old /\ \A j \in 1..(i - 1) : s[j] # old THEN new ELSE s[i]]

Replace(s, old, new) == [i \in 1..Len(s) |-> IF s[i] = old THEN new ELSE s[i]]

RECURSIVE SplitRec(_, _, _)
SplitRec(s, sep, cur) ==
    IF s = <<>> THEN <<cur>>
    ELSE IF Head(s) = sep THEN <<cur>> \o SplitRec(Tail(s), sep, <<>>)
    ELSE SplitRec(Tail(s), sep, Append(cur, Head(s)))

\* Split as s.split() does it: runs of separators count once, and no token
\* is empty.
SplitRuns(s, sep) == SelectSeq(SplitRec(s, sep, <<>>), LAMBDA tok : tok # <<>>)

\* s.split(sep) for a one-character sep: the tokens, empty ones included.
Split(s, sep) == SplitRec(s, sep, <<>>)

DigitValue(c) ==
    CASE c = "0" -> 0 [] c = "1" -> 1 [] c = "2" -> 2 [] c = "3" -> 3
      [] c = "4" -> 4 [] c = "5" -> 5 [] c = "6" -> 6 [] c = "7" -> 7
      [] c = "8" -> 8 [] OTHER -> 9

RECURSIVE DecimalValue(_)
DecimalValue(s) ==
    IF s = <<>> THEN 0
    ELSE 10 * DecimalValue(SubSeq(s, 1, Len(s) - 1)) + DigitValue(s[Len(s)])

\* float(x): a float is kept, an int and a string of digits are converted,
\* any other string is a ValueError, any other value a TypeError.
PyFloat(x) ==
    CASE x.t = "float" -> Ok(x)
      [] x.t = "int" -> Ok(Float(100 * x.v))
      [] x.t = "str" ->
            IF x.v # <<>> /\ \A i \in 1..Len(x.v) : x.v[i] \in Digits
            THEN Ok(Float(100 * DecimalValue(x.v)))
            ELSE Raise("ValueError")
      [] OTHER -> Raise("TypeError")

HasLen(x) == x.t \in {"str", "list", "tuple"}
PyLen(x) == Len(x.v)

\* x[0:3]: the elements of a sequence (the characters of a str) up to the third.
Elements(x) == IF x.t = "str" THEN [i \in 1..Len(x.v) |-> Str(<<x.v[i]>>)] ELSE x.v
Slice3(x) == SubSeq(Elements(x), 1, IF PyLen(x) < 3 THEN PyLen(x) ELSE 3)

---------------------------------------------------------------------------
(* The handler's pure parts. *)

\* xr.open_dataset(self.filename, engine=self.engine)
open_dataset(f) == IF f.exists THEN Ok(f) ELSE Raise("FileNotFoundError")

\* start_time: self.filename_info['start_time']
start_time(info) ==
    IF "start_time" \in DOMAIN info THEN Ok(info["start_time"]) ELSE Raise("KeyError")

\* end_time: self.filename_info.get('end_time', self.start_time).  The
\* default is an argument of get: it is evaluated before get is called.
end_time(info) ==
    LET default == start_time(info)
    IN  IF default.err # "" THEN default
        ELSE IF "end_time" \in DOMAIN info THEN Ok(info["end_time"])
        ELSE default

\* sensor: nc.attrs['instrument'].replace('/', '-').lower().  The handle nc
\* is never closed: closed counts the close calls of the code.
sensor(f) ==
    LET nc == open_dataset(f)
    IN  IF nc.err # "" THEN [ret |-> nc, opens |-> 1, opened |-> 0, closed |-> 0]
        ELSE [ret |-> IF "instrument" \notin DOMAIN f.attrs THEN Raise("KeyError")
                      ELSE IF f.attrs["instrument"].t # "str" THEN Raise("AttributeError")
                      ELSE Ok(Str(Lower(Replace(f.attrs["instrument"].v, "/", "-")))),
              opens |-> 1, opened |-> 1, closed |-> 0]

\* sensor_names: {self.sensor}
sensor_names(f) ==
    LET s == sensor(f)
    IN  [s EXCEPT !.ret = IF s.ret.err # "" THEN s.ret ELSE Ok(PySet(<<s.ret.val>>))]

\* fix_modifier_attr: ds_info after the call (the dict is changed in place),
\* or the exception that escapes it.
fix_modifier_attr(ds_info) ==
    IF "modifiers" \in DOMAIN ds_info /\ ~HasLen(ds_info["modifiers"])
    THEN [err |-> "TypeError", info |-> ds_info]
    ELSE LET d == IF "modifiers" \in DOMAIN ds_info /\ PyLen(ds_info["modifiers"]) = 0
                  THEN Put(ds_info, "modifiers", Tuple(<<>>))
                  ELSE ds_info
         IN  IF "modifiers" \notin DOMAIN d
             THEN [err |-> "", info |-> d]                \* except KeyError: pass
             ELSE IF d["modifiers"].t # "str"
             THEN [err |-> "", info |-> d]                \* except AttributeError: pass
             ELSE LET toks == Split(d["modifiers"].v, " ")
                  IN  [err |-> "",
                       info |-> Put(d, "modifiers",
                                    Tuple([i \in 1..Len(toks) |-> Str(toks[i])]))]

\* coerce_wavelength without the [0:3]: every element is converted.
coerce_wavelength_all(ds_info) ==
    IF "wavelength" \notin DOMAIN ds_info THEN [err |-> "", info |-> ds_info]
    ELSE LET w == ds_info["wavelength"]
         IN  IF ~HasLen(w) THEN [err |-> "TypeError", info |-> ds_info]
             ELSE LET els == Elements(w)
                      bad == {i \in 1..Len(els) : PyFloat(els[i]).err # ""}
                      first == CHOOSE i \in bad : \A j \in bad : i <= j
                  IN  IF bad # {}
                      THEN [err |-> PyFloat(els[first]).err, info |-> ds_info]
                      ELSE [err |-> "",
                            info |-> Put(ds_info, "wavelength",
                                         Tuple([i \in 1..Len(els) |-> PyFloat(els[i]).val]))]

\* The try block of _dynamic_datasets:
\*   ds_info['wavelength'] = tuple([float(w) for w in ds_info['wavelength'][0:3]])
\*   except KeyError: pass
coerce_wavelength(ds_info) ==
    IF "wavelength" \notin DOMAIN ds_info THEN [err |-> "", info |-> ds_info]
    ELSE LET w == ds_info["wavelength"]
         IN  IF ~HasLen(w) THEN [err |-> "TypeError", info |-> ds_info]
             ELSE LET els == Slice3(w)
                      bad == {i \in 1..Len(els) : PyFloat(els[i]).err # ""}
                      first == CHOOSE i \in bad : \A j \in bad : i <= j
                  IN  IF bad # {}
                      THEN [err |-> PyFloat(els[first]).err, info |-> ds_info]
                      ELSE [err |-> "",
                            info |-> Put(ds_info, "wavelength",
                                         Tuple([i \in 1..Len(els) |-> PyFloat(els[i]).val]))]

\* The body of the loop of _dynamic_datasets for one data variable.
dynamic_info(var_name, val, ftype) ==
    LET d0 == val.attrs
        d1 == Put(d0, "file_type", ftype["file_type"])
        d2 == Put(d1, "name", var_name)
        w == coerce_wavelength(d2)
    IN  IF w.err # "" THEN w ELSE fix_modifier_attr(w.info)

\* The body of the loop of _coordinate_datasets for one coordinate variable.
coordinate_info(var_name, val, ftype) ==
    LET d0 == val.attrs
        d1 == Put(d0, "file_type", ftype["file_type"])
        d2 == Put(d1, "name", var_name)
    IN  fix_modifier_attr(d2)

\* existing_datasets that passes on only the entries flagged available.
existing_datasets_available(conf) ==
    IF conf.t = "none" \/ PyLen(conf) = 0 THEN <<>>
    ELSE SelectSeq(conf.v, LAMBDA e : e.avail)

\* _existing_datasets: the entries of (configured_datasets or []).
existing_datasets(conf) ==
    IF conf.t = "none" \/ PyLen(conf) = 0 THEN <<>> ELSE conf.v

\* nc[file_key]: the data or coordinate variable of that name.
Variables(f) == f.data_vars \o f.coords
HasVariable(f, key) == \E i \in 1..Len(Variables(f)) : Variables(f)[i].name = key
Variable(f, key) ==
    Variables(f)[CHOOSE i \in 1..Len(Variables(f)) : Variables(f)[i].name = key]

\* file_key that never reads ds_info.
file_key_from_id(ds_id, ds_info) == ds_id["name"]

\* ds_info.get('file_key', ds_id['name'])
file_key(ds_id, ds_info) ==
    IF "file_key" \in DOMAIN ds_info THEN ds_info["file_key"] ELSE ds_id["name"]

\* get_dataset: the outcome, ds_info after the call, and the handles.
get_dataset(f, ds_id, ds_info) ==
    LET nc == open_dataset(f)
        key == file_key(ds_id, ds_info)
    IN  IF nc.err # ""
        THEN [ret |-> nc, ds_info |-> ds_info, opens |-> 1, opened |-> 0, closed |-> 0]
        ELSE IF ~HasVariable(f, key)
        THEN [ret |-> Raise("KeyError"), ds_info |-> ds_info,
              opens |-> 1, opened |-> 1, closed |-> 0]
        ELSE LET data == Variable(f, key)
             IN  [ret |-> Ok([t |-> "DataArray", v |-> data.name,
                              attrs |-> Update(data.attrs, f.attrs)]),
                  ds_info |-> ds_info, opens |-> 1, opened |-> 1, closed |-> 0]

\* One next() of the generator available_datasets returned, when it has
\* yielded n records and the passes in opened hold an open handle:
\* itertools.chain(existing, dynamic, coordinates) asks the first pass that
\* is not exhausted.  A pass opens the file when it is first asked; its frame
\* ends, still holding the handle, when it is exhausted or raises.
chain_next(f, ftype, conf, n, opened) ==
    LET ex == existing_datasets(conf)
        i == n - Len(ex)
        j == i - Len(f.data_vars)
        dynOpen == IF "dynamic" \in opened THEN 0 ELSE 1
        coOpen == IF "coordinates" \in opened THEN 0 ELSE 1
        dynNew == IF dynOpen = 1 THEN {"dynamic"} ELSE {}
        coNew == IF coOpen = 1 THEN {"coordinates"} ELSE {}
        nc == open_dataset(f)
    IN  IF n < Len(ex)
        THEN [ret |-> Ok(ex[n + 1]), state |-> "running", passes |-> {},
              opens |-> 0, started |-> 0, finished |-> 0, closed |-> 0]
        ELSE IF dynOpen = 1 /\ nc.err # ""
        THEN [ret |-> nc, state |-> "failed", passes |-> {},
              opens |-> 1, started |-> 0, finished |-> 0, closed |-> 0]
        ELSE IF i < Len(f.data_vars)
        THEN LET val == f.data_vars[i + 1]
                 r == dynamic_info(val.name, val, ftype)
             IN  IF r.err # ""
                 THEN [ret |-> Raise(r.err), state |-> "failed", passes |-> dynNew,
                       opens |-> dynOpen, started |-> dynOpen, finished |-> 1,
                       closed |-> 0]
                 ELSE [ret |-> Ok([avail |-> TRUE, info |-> r.info]),
                       state |-> "running", passes |-> dynNew,
                       opens |-> dynOpen, started |-> dynOpen, finished |-> 0,
                       closed |-> 0]
        ELSE IF coOpen = 1 /\ nc.err # ""
        THEN [ret |-> nc, state |-> "failed", passes |-> dynNew,
              opens |-> dynOpen + 1, started |-> dynOpen, finished |-> 1,
              closed |-> 0]
        ELSE IF j < Len(f.coords)
        THEN LET val == f.coords[j + 1]
                 r == coordinate_info(val.name, val, ftype)
             IN  IF r.err # ""
                 THEN [ret |-> Raise(r.err), state |-> "failed",
                       passes |-> dynNew \cup coNew, opens |-> dynOpen + coOpen,
                       started |-> dynOpen + coOpen, finished |-> coOpen + 1,
                       closed |-> 0]
                 ELSE [ret |-> Ok([avail |-> TRUE, info |-> r.info]),
                       state |-> "running", passes |-> dynNew \cup coNew,
                       opens |-> dynOpen + coOpen, started |-> dynOpen + coOpen,
                       finished |-> coOpen, closed |-> 0]
        ELSE [ret |-> Raise("StopIteration"), state |-> "exhausted",
              passes |-> dynNew \cup coNew, opens |-> dynOpen + coOpen,
              started |-> dynOpen + coOpen, finished |-> coOpen + 1,
              closed |-> 0]

---------------------------------------------------------------------------
(* The files, filename metadata and arguments the model runs over. *)

Chars(a, b) == Str(<<a, b>>)
Char(a) == Str(<<a>>)

\* Data variables: every shape of modifiers and of wavelength.
DataVarPool == <<
    [name |-> Chars("M", "1"),
     attrs |-> [units |-> Char("K"),
                wavelength |-> List(<<Float(60), Float(65), Float(70), Char("x")>>),
                modifiers |-> List(<<>>)]],
    [name |-> Chars("M", "2"),
     attrs |-> [modifiers |-> Str(<<"s", " ", "r">>),
                wavelength |-> Tuple(<<Int(1), Char("2"), Float(250)>>)]],
    [name |-> Chars("M", "3"),
     attrs |-> [modifiers |-> List(<<Char("s"), Char("r")>>)]],
    [name |-> Chars("M", "4"),
     attrs |-> [modifiers |-> Tuple(<<Char("s")>>),
                instrument |-> Char("x"),
                name |-> Char("o")]],
    [name |-> Chars("M", "5"),
     attrs |-> [modifiers |-> Tuple(<<>>),
                wavelength |-> List(<<Float(60), Int(2)>>)]],
    [name |-> Chars("M", "6"),
     attrs |-> [wavelength |-> List(<<Float(60), Char("x"), Float(70)>>)]] >>

CoordPool == <<
    [name |-> Char("x"), attrs |-> [units |-> Char("m")]],
    [name |-> Char("y"),
     attrs |-> [wavelength |-> List(<<Int(1), Char("x")>>),
                modifiers |-> Str(<<"s", " ", " ", "r">>)]],
    [name |-> Char("t"), attrs |-> [modifiers |-> Str(<<>>)]] >>

AttrsPool == <<
    [instrument |-> Str(<<"V", "/", "a", "B">>), title |-> Char("t")],
    EmptyDict,
    [instrument |-> Str(<<"/", "A", "-", "/">>), units |-> Char("g")] >>

\* The sequences without repetition of at most max of the numbers 1..n: a
\* file's variables have distinct names.
InjSeqs(n, max) ==
    UNION {{s \in [1..k -> 1..n] : \A a, b \in 1..k : a # b => s[a] # s[b]} :
           k \in 0..max}

\* Those in rising or in falling order.
Monotone(n, max) ==
    {s \in InjSeqs(n, max) :
        \/ \A a, b \in 1..Len(s) : a < b => s[a] < s[b]
        \/ \A a, b \in 1..Len(s) : a < b => s[a] > s[b]}

Pick(pool, s) == [k \in 1..Len(s) |-> pool[s[k]]]

MkFile(a, d, c) ==
    [exists |-> TRUE, attrs |-> AttrsPool[a],
     data_vars |-> Pick(DataVarPool, d), coords |-> Pick(CoordPool, c)]

MissingFile ==
    [exists |-> FALSE, attrs |-> EmptyDict, data_vars |-> <<>>, coords |-> <<>>]

FullInfo == [start_time |-> Datetime(1), end_time |-> Datetime(2)]

\* Entries of the reader's configuration.
ConfiguredPool == <<
    [avail |-> TRUE, info |-> [name |-> Chars("f", "o")]],
    [avail |-> FALSE,
     info |-> [name |-> Chars("M", "1"), modifiers |-> List(<<>>)]] >>

\* Names a caller asks get_dataset for.
NamePool == <<Chars("M", "1"), Chars("M", "4"), Char("x"), Chars("z", "z")>>

NoArgs == [ds_id |-> EmptyDict, ds_info |-> EmptyDict, configured |-> None]

\* The calls of get_dataset: <<i, k>> asks for name i with a ds_info that has
\* no file_key (k = 0) or the file_key k.
GetChoices == {<<1, 0>>, <<2, 0>>, <<3, 0>>, <<4, 0>>, <<4, 2>>, <<1, 4>>}
DsId(i) == [name |-> NamePool[i]]
DsInfo(i, k) ==
    IF k = 0 THEN [name |-> NamePool[i]]
    ELSE [name |-> NamePool[i], file_key |-> NamePool[k]]

Configured(s) == List(Pick(ConfiguredPool, s))

---------------------------------------------------------------------------
(* The handler after __init__, over one file. *)

Init ==
    /\ filename = "cf.nc"
    /\ filetype_info = [file_type |-> Chars("c", "f")]
    /\ engine = None
    /\ \/ /\ filename_info = FullInfo
          /\ \/ \E d \in Monotone(Len(DataVarPool), MaxVars) : file = MkFile(1, d, <<1>>)
             \/ \E c \in InjSeqs(Len(CoordPool), MaxCoords) : file = MkFile(3, <<1, 4>>, c)
             \/ \E a \in 1..Len(AttrsPool) : file = MkFile(a, <<1, 4>>, <<1>>)
             \/ file = MissingFile
       \/ /\ file = MkFile(1, <<1, 4>>, <<1>>)
          /\ \E ks \in SUBSET {"start_time", "end_time"} :
                filename_info = [k \in ks |-> FullInfo[k]]
    /\ op = "__init__"
    /\ given = NoArgs
    /\ after = NoArgs
    /\ ret = Ok(None)
    /\ opens = 0
    /\ genState = "none"
    /\ configured = None
    /\ out = <<>>
    /\ passOpened = {}
    /\ inUse = 0
    /\ leaked = 0

Returns(name, g, a, r, n) ==
    /\ op' = name
    /\ given' = g
    /\ after' = a
    /\ ret' = r
    /\ opens' = n

\* The model's bound on the handles that are open at once.
Bounded == inUse + leaked <= MaxHandles

StartTime ==
    /\ Returns("start_time", NoArgs, NoArgs, start_time(filename_info), 0)
    /\ UNCHANGED <<handler, file, gen, inUse, leaked>>

EndTime ==
    /\ Returns("end_time", NoArgs, NoArgs, end_time(filename_info), 0)
    /\ UNCHANGED <<handler, file, gen, inUse, leaked>>

\* Sensor keeping its result in the handler for the next call.
SensorMemoized ==
    /\ LET r == sensor(file)
       IN  /\ Returns("sensor", NoArgs, NoArgs, r.ret, r.opens)
           /\ leaked' = leaked + r.opened - r.closed
           /\ filename_info' = Put(filename_info, "sensor", r.ret.val)
    /\ UNCHANGED <<filename, filetype_info, engine, file, gen, inUse>>
    /\ Bounded'

Sensor ==
    /\ LET r == sensor(file)
       IN  /\ Returns("sensor", NoArgs, NoArgs, r.ret, r.opens)
           /\ leaked' = leaked + r.opened - r.closed
    /\ UNCHANGED <<handler, file, gen, inUse>>
    /\ Bounded'

SensorNames ==
    /\ LET r == sensor_names(file)
       IN  /\ Returns("sensor_names", NoArgs, NoArgs, r.ret, r.opens)
           /\ leaked' = leaked + r.opened - r.closed
    /\ UNCHANGED <<handler, file, gen, inUse>>
    /\ Bounded'

GetDataset ==
    /\ \E c \in GetChoices :
          LET g == [ds_id |-> DsId(c[1]), ds_info |-> DsInfo(c[1], c[2]),
                    configured |-> None]
              r == get_dataset(file, g.ds_id, g.ds_info)
          IN  /\ Returns("get_dataset", g, [g EXCEPT !.ds_info = r.ds_info],
                         r.ret, r.opens)
              /\ leaked' = leaked + r.opened - r.closed
    /\ UNCHANGED <<handler, file, gen, inUse>>
    /\ Bounded'

\* available_datasets(configured_datasets): a generator; none of its code
\* runs before the first next().
AvailableDatasets ==
    /\ genState # "running"
    /\ \E c \in {None} \cup {Configured(s) : s \in InjSeqs(Len(ConfiguredPool), MaxConfigured)} :
          /\ configured' = c
          /\ Returns("available_datasets", [NoArgs EXCEPT !.configured = c],
                     [NoArgs EXCEPT !.configured = c], Ok(None), 0)
    /\ genState' = "running"
    /\ out' = <<>>
    /\ passOpened' = {}
    /\ UNCHANGED <<handler, file, inUse, leaked>>

\* next() on the generator.
NextRecord ==
    /\ genState = "running"
    /\ LET r == chain_next(file, filetype_info, configured, Len(out), passOpened)
       IN  /\ Returns("next", [NoArgs EXCEPT !.configured = configured],
                      [NoArgs EXCEPT !.configured = configured], r.ret, r.opens)
           /\ genState' = r.state
           /\ out' = IF r.state = "running" THEN Append(out, r.ret.val) ELSE out
           /\ passOpened' = passOpened \cup r.passes
           /\ inUse' = IF r.state = "running" THEN inUse + r.started - r.finished ELSE 0
           /\ leaked' = leaked + r.finished - r.closed
    /\ UNCHANGED <<handler, file, configured>>
    /\ Bounded'

\* The caller drops the generator, and what it yielded, before it is
\* exhausted: the frames that hold a handle end at their yield, and no close
\* is run.
Abandon ==
    /\ genState = "running"
    /\ Returns("close", [NoArgs EXCEPT !.configured = configured],
               [NoArgs EXCEPT !.configured = configured], Ok(None), 0)
    /\ genState' = "abandoned"
    /\ out' = <<>>
    /\ leaked' = leaked + inUse
    /\ inUse' = 0
    /\ UNCHANGED <<handler, file, configured, passOpened>>

\* The runtime finalises a handle no frame refers to: when it does is not
\* the code's choice.
Reclaim ==
    /\ leaked > 0
    /\ leaked' = leaked - 1
    /\ UNCHANGED <<handler, file, call, gen, inUse>>

Next ==
    \/ StartTime
    \/ EndTime
    \/ Sensor
    \/ SensorNames
    \/ GetDataset
    \/ AvailableDatasets
    \/ NextRecord
    \/ Abandon
    \/ Reclaim

Spec == Init /\ [][Next]_vars

---------------------------------------------------------------------------
(* What the properties below speak of: the records of an enumeration by    *)
(* the pass that yielded them, and the file variable each one describes.   *)

NC == IF configured.t = "none" THEN 0 ELSE Len(configured.v)
ND == Len(file.data_vars)
NK == Len(file.coords)
IsExisting(p) == p \in 1..NC
IsDynamic(p) == p \in (NC + 1)..(NC + ND)
IsCoordinate(p) == p \in (NC + ND + 1)..(NC + ND + NK)
Source(p) == IF IsDynamic(p) THEN file.data_vars[p - NC] ELSE file.coords[p - NC - ND]
Emitted == {p \in 1..Len(out) : IsDynamic(p) \/ IsCoordinate(p)}

\* C1: an exhausted enumeration has yielded the configured entries as they
\* were given, then one available record per data variable, then one per
\* coordinate variable, each in the file's order and none left out; and what
\* a running enumeration has yielded is the start of that sequence.
C1_Concatenation ==
    /\ genState = "exhausted" => Len(out) = NC + ND + NK
    /\ Len(out) <= NC + ND + NK
    /\ \A p \in 1..Len(out) :
          /\ IsExisting(p) => out[p] = configured.v[p]
          /\ IsDynamic(p) \/ IsCoordinate(p) =>
                /\ out[p].avail = TRUE
                /\ out[p].info["name"] = Source(p).name

\* An exhausted enumeration over two configured entries, two data variables
\* and a coordinate variable, where a configured entry and a data variable
\* have the same name.
C1_Witness ==
    /\ genState = "exhausted"
    /\ NC = 2 /\ ND = 2 /\ NK = 1
    /\ \E p \in 1..NC, q \in 1..ND :
          configured.v[p].info["name"] = file.data_vars[q].name

\* C2: the modifiers of every record of the two dynamic passes, when the
\* record has any, is a tuple of strings.
C2_ModifiersIsTuple ==
    \A p \in Emitted :
        "modifiers" \in DOMAIN out[p].info =>
            /\ out[p].info["modifiers"].t = "tuple"
            /\ \A i \in 1..Len(out[p].info["modifiers"].v) :
                  out[p].info["modifiers"].v[i].t = "str"

Coercible(x) ==
    \/ x.t \in {"float", "int"}
    \/ x.t = "str" /\ x.v # <<>> /\ \A i \in 1..Len(x.v) : x.v[i] \in Digits

Hundredths(x) ==
    CASE x.t = "float" -> x.v
      [] x.t = "int" -> 100 * x.v
      [] OTHER -> 100 * DecimalValue(x.v)

Shorter(a, b) == IF a < b THEN a ELSE b

\* C3: a record of the data-variable pass has a wavelength exactly when the
\* variable has one, and it is then the tuple of the variable's first three
\* elements as floats; a record of the coordinate pass carries the
\* variable's wavelength as it is; and an enumeration of a readable file
\* fails only at a data variable one of whose first three wavelength
\* elements is no number.
C3_Wavelength ==
    /\ \A p \in Emitted :
          LET raw == Source(p).attrs
              info == out[p].info
          IN  /\ "wavelength" \in DOMAIN info <=> "wavelength" \in DOMAIN raw
              /\ "wavelength" \in DOMAIN raw /\ IsCoordinate(p) =>
                    info["wavelength"] = raw["wavelength"]
              /\ "wavelength" \in DOMAIN raw /\ IsDynamic(p) =>
                    /\ info["wavelength"].t = "tuple"
                    /\ Len(info["wavelength"].v) = Shorter(3, Len(raw["wavelength"].v))
                    /\ \A i \in 1..Len(info["wavelength"].v) :
                          /\ info["wavelength"].v[i].t = "float"
                          /\ info["wavelength"].v[i].v = Hundredths(raw["wavelength"].v[i])
    /\ genState = "failed" /\ file.exists =>
          /\ IsDynamic(Len(out) + 1)
          /\ "wavelength" \in DOMAIN Source(Len(out) + 1).attrs
          /\ \E i \in 1..Shorter(3, Len(Source(Len(out) + 1).attrs["wavelength"].v)) :
                ~Coercible(Source(Len(out) + 1).attrs["wavelength"].v[i])

\* A data-variable record made from a wavelength of four elements whose
\* fourth is no number, next to one made from a variable without wavelength.
C3_Witness ==
    /\ \E p \in Emitted :
          /\ IsDynamic(p)
          /\ "wavelength" \in DOMAIN Source(p).attrs
          /\ Len(Source(p).attrs["wavelength"].v) = 4
          /\ ~Coercible(Source(p).attrs["wavelength"].v[4])
          /\ Len(out[p].info["wavelength"].v) = 3
    /\ \E p \in Emitted :
          IsDynamic(p) /\ "wavelength" \notin DOMAIN out[p].info

\* The file variable a get_dataset call asks for, when the file has it.
Asked ==
    IF "file_key" \in DOMAIN given.ds_info THEN given.ds_info["file_key"]
    ELSE given.ds_id["name"]
AskedIsThere ==
    /\ file.exists
    /\ \E i \in 1..(ND + NK) : (file.data_vars \o file.coords)[i].name = Asked
AskedAttrs ==
    LET all == file.data_vars \o file.coords
    IN  all[CHOOSE i \in 1..Len(all) : all[i].name = Asked].attrs

\* C4: the attributes of what get_dataset returns have the keys of the
\* variable and of the file; a key of the file has the file's value, any
\* other key the variable's.
C4_AttrsMerge ==
    op = "get_dataset" /\ ret.err = "" =>
        /\ DOMAIN ret.val.attrs = DOMAIN AskedAttrs \cup DOMAIN file.attrs
        /\ \A k \in DOMAIN file.attrs : ret.val.attrs[k] = file.attrs[k]
        /\ \A k \in DOMAIN AskedAttrs \ DOMAIN file.attrs :
              ret.val.attrs[k] = AskedAttrs[k]

\* get_dataset has returned a variable one of whose attributes the file has
\* too, with another value.
C4_Witness ==
    /\ op = "get_dataset"
    /\ ret.err = ""
    /\ \E k \in DOMAIN AskedAttrs \cap DOMAIN file.attrs :
          /\ AskedAttrs[k] # file.attrs[k]
          /\ ret.val.attrs[k] = file.attrs[k]
    /\ DOMAIN AskedAttrs \ DOMAIN file.attrs # {}

\* C5: get_dataset returns the variable named by ds_info's file_key, or by
\* ds_id's name when ds_info has no file_key; when the file has no such
\* variable, or cannot be opened, it raises and returns nothing.
C5_FileKey ==
    op = "get_dataset" =>
        IF AskedIsThere
        THEN ret.err = "" /\ ret.val.t = "DataArray" /\ ret.val.v = Asked
        ELSE ret.err # "" /\ ret.val = None

\* get_dataset has raised for a file_key the file does not have, though it
\* has a variable of ds_id's name.
C5_Witness ==
    /\ op = "get_dataset"
    /\ "file_key" \in DOMAIN given.ds_info
    /\ ret.err = "KeyError"
    /\ \E i \in 1..ND : file.data_vars[i].name = given.ds_id["name"]

\* C6: end_time returns the end_time of the filename metadata when there is
\* one and what start_time returns otherwise; start_time raises when the
\* metadata has no start_time.
C6_EndTime ==
    /\ op = "end_time" /\ "end_time" \in DOMAIN filename_info =>
          ret.err = "" /\ ret.val = filename_info["end_time"]
    /\ op = "end_time" /\ "end_time" \notin DOMAIN filename_info =>
          IF "start_time" \in DOMAIN filename_info
          THEN ret.err = "" /\ ret.val = filename_info["start_time"]
          ELSE ret.err # ""
    /\ op = "start_time" /\ "start_time" \notin DOMAIN filename_info => ret.err # ""

LowerPairs == {<<"A", "a">>, <<"B", "b">>, <<"V", "v">>}

\* x is the string raw with - for each / and each capital in lower case.
IsSensorOf(x, raw) ==
    /\ x.t = "str"
    /\ Len(x.v) = Len(raw)
    /\ \A i \in 1..Len(raw) :
          /\ x.v[i] # "/"
          /\ x.v[i] \notin Upper
          /\ raw[i] = "/" => x.v[i] = "-"
          /\ raw[i] \in Upper => <<raw[i], x.v[i]>> \in LowerPairs
          /\ raw[i] # "/" /\ raw[i] \notin Upper => x.v[i] = raw[i]

\* C7: sensor returns the file's instrument attribute with - for each / and
\* in lower case, and raises when the file has no instrument attribute;
\* sensor_names returns the set of that one string.
C7_Sensor ==
    /\ op = "sensor" /\ file.exists =>
          IF "instrument" \in DOMAIN file.attrs
          THEN ret.err = "" /\ IsSensorOf(ret.val, file.attrs["instrument"].v)
          ELSE ret.err # "" /\ ret.val = None
    /\ op = "sensor_names" /\ file.exists =>
          IF "instrument" \in DOMAIN file.attrs
          THEN /\ ret.err = ""
               /\ ret.val.t = "set"
               /\ Len(ret.val.v) = 1
               /\ IsSensorOf(ret.val.v[1], file.attrs["instrument"].v)
          ELSE ret.err # "" /\ ret.val = None

\* sensor_names has returned for an instrument with two / and a capital.
C7_Witness ==
    /\ op = "sensor_names"
    /\ ret.err = ""
    /\ \E i, j, k \in 1..Len(file.attrs["instrument"].v) :
          /\ i # j
          /\ file.attrs["instrument"].v[i] = "/"
          /\ file.attrs["instrument"].v[j] = "/"
          /\ file.attrs["instrument"].v[k] \in Upper

\* C8: no handle is open once the call that opened it has exited.
C8_HandlesReleased == leaked = 0

RECURSIVE JoinTokens(_)
JoinTokens(toks) ==
    IF toks = <<>> THEN <<>>
    ELSE IF Len(toks) = 1 THEN toks[1].v
    ELSE toks[1].v \o <<" ">> \o JoinTokens(Tail(toks))

\* C9: in a record of the two dynamic passes, a variable without modifiers
\* gives a record without; modifiers of length zero give the empty tuple; a
\* string gives the tuple of the tokens between its spaces; any other
\* sequence is kept as it is; every other attribute of the variable is kept;
\* and the coordinate pass, which does nothing else that can fail, never
\* raises on a readable file.
C9_FixModifierAttr ==
    /\ \A p \in Emitted :
          LET raw == Source(p).attrs
              info == out[p].info
          IN  /\ DOMAIN info = DOMAIN raw \cup {"name", "file_type"}
              /\ \A k \in DOMAIN raw \ {"name", "file_type", "wavelength", "modifiers"} :
                    info[k] = raw[k]
              /\ "modifiers" \in DOMAIN raw =>
                    LET m == raw["modifiers"]
                        x == info["modifiers"]
                    IN  /\ Len(m.v) = 0 => x = Tuple(<<>>)
                        /\ Len(m.v) # 0 /\ m.t = "str" =>
                              /\ x.t = "tuple"
                              /\ \A i \in 1..Len(x.v) :
                                    /\ x.v[i].t = "str"
                                    /\ \A c \in 1..Len(x.v[i].v) : x.v[i].v[c] # " "
                              /\ JoinTokens(x.v) = m.v
                        /\ Len(m.v) # 0 /\ m.t # "str" => x = m
    /\ genState = "failed" /\ file.exists => ~IsCoordinate(Len(out) + 1)

\* Records made from modifiers that are a string with two spaces in a row,
\* an empty list, and a tuple that is not empty.
C9_Witness ==
    /\ \E p \in Emitted :
          /\ "modifiers" \in DOMAIN Source(p).attrs
          /\ Source(p).attrs["modifiers"].t = "str"
          /\ Len(out[p].info["modifiers"].v) = 3
    /\ \E p \in Emitted :
          /\ "modifiers" \in DOMAIN Source(p).attrs
          /\ Source(p).attrs["modifiers"] = List(<<>>)
          /\ out[p].info["modifiers"] = Tuple(<<>>)
    /\ \E p \in Emitted :
          /\ "modifiers" \in DOMAIN Source(p).attrs
          /\ Source(p).attrs["modifiers"].t = "tuple"
          /\ Len(out[p].info["modifiers"].v) > 0

\* C10: no call changes the handler or the file, nor the arguments it was
\* given; sensor, sensor_names and get_dataset each open the file once, and
\* so does each of the two dynamic passes of every enumeration before it
\* yields.
C10_NoCaching ==
    /\ [](/\ after = given
          /\ op \in {"sensor", "sensor_names", "get_dataset"} => opens = 1
          /\ op \in {"start_time", "end_time", "available_datasets"} => opens = 0
          /\ (\E p \in 1..Len(out) : IsDynamic(p)) => "dynamic" \in passOpened
          /\ (\E p \in 1..Len(out) : IsCoordinate(p)) => "coordinates" \in passOpened
          /\ genState = "exhausted" => passOpened = {"dynamic", "coordinates"}
          /\ op = "next" /\ genState = "running" /\ Len(out) = NC + 1 /\ ND > 0 =>
                opens = 1)
    /\ [][handler' = handler /\ file' = file]_vars

\* An enumeration has yielded a data-variable record while the handle of an
\* earlier call is still open.
C10_Witness ==
    /\ op = "next"
    /\ genState = "running"
    /\ Len(out) = NC + 1
    /\ ND > 0
    /\ opens = 1
    /\ leaked = 1

====
